---- MODULE Spec2Model ----
(***************************************************************************)
(* Key-frame extraction of src/src/utils/videoProcessorML.ts: the frame    *)
(* difference metrics, the Laplacian blur score and the stability-based    *)
(* processVideo loop; and the object-detection (COCO-SSD) processVideo of  *)
(* the same file with its loadModel.                                       *)
(*                                                                         *)
(* Numbers.  JavaScript numbers are modelled by exact rationals <<n, d>>   *)
(* with d > 0, kept in lowest terms.  Times are integers counting          *)
(* milliseconds (0.1 s = 100), added and compared exactly.                 *)
(***************************************************************************)
EXTENDS Integers, Sequences, FiniteSets, TLC

----------------------------------------------------------------------------
(* Exact rational arithmetic                                               *)

Abs(x) == IF x < 0 THEN -x ELSE x

RECURSIVE Gcd(_, _)
Gcd(a, b) == IF b = 0 THEN a ELSE Gcd(b, a % b)

RNorm(n, d) ==
    LET g == Gcd(Abs(n), Abs(d))
        s == IF d < 0 THEN -1 ELSE 1
    IN  IF n = 0 THEN <<0, 1>> ELSE <<s * (n \div g), s * (d \div g)>>

R(n) == <<n, 1>>
RZero == <<0, 1>>
ROne == <<1, 1>>

RAdd(p, q) ==
    LET g == Gcd(p[2], q[2])
    IN  RNorm(p[1] * (q[2] \div g) + q[1] * (p[2] \div g), (p[2] \div g) * q[2])

RNeg(p) == <<-p[1], p[2]>>
RSub(p, q) == RAdd(p, RNeg(q))

RMul(p, q) ==
    LET a == RNorm(p[1], q[2])
        b == RNorm(q[1], p[2])
    IN  <<a[1] * b[1], a[2] * b[2]>>

RDivInt(p, k) == RMul(p, RNorm(1, k))

RLt(p, q) == RSub(p, q)[1] < 0
RLe(p, q) == RSub(p, q)[1] <= 0
RMin(p, q) == IF RLt(q, p) THEN q ELSE p
RAbs(p) == <<Abs(p[1]), p[2]>>

\* Sum of f[i] over the integers lo..hi.  Exact addition is associative, so
\* the sum is split in halves to keep the evaluation shallow.
RECURSIVE RSum(_, _, _)
RSum(f, lo, hi) ==
    IF lo > hi THEN RZero
    ELSE IF lo = hi THEN f[lo]
    ELSE LET mid == (lo + hi) \div 2
         IN  RAdd(RSum(f, lo, mid), RSum(f, mid + 1, hi))

RECURSIVE ISum(_, _, _)
ISum(f, lo, hi) ==
    IF lo > hi THEN 0
    ELSE IF lo = hi THEN f[lo]
    ELSE LET mid == (lo + hi) \div 2
         IN  ISum(f, lo, mid) + ISum(f, mid + 1, hi)

MinInt(a, b) == IF a < b THEN a ELSE b
MaxInt(a, b) == IF a > b THEN a ELSE b

----------------------------------------------------------------------------
(* Frames (ImageData).  A frame is described by its size and a two-colour  *)
(* layout: the columns x < at show colour c1, the others colour c2.  Its   *)
(* RGBA buffer is data[(y*width + x)*4 + channel].                         *)

Black == <<0, 0, 0>>
White == <<255, 255, 255>>
Grey  == <<128, 128, 128>>
Red   == <<255, 0, 0>>
Blue  == <<0, 0, 255>>

Desc(w, h, at, c1, c2) == [w |-> w, h |-> h, at |-> at, c1 |-> c1, c2 |-> c2]

ImageData(d) ==
    [width  |-> d.w,
     height |-> d.h,
     data   |-> [i \in 0..(d.w * d.h * 4 - 1) |->
                   LET ch == i % 4
                       x  == (i \div 4) % d.w
                       c  == IF x < d.at THEN d.c1 ELSE d.c2
                   IN  IF ch = 3 THEN 255 ELSE c[ch + 1]]]

----------------------------------------------------------------------------
(* calculateHistogramDifference                                            *)

bins == 64
SampleTarget == 10000

\* Math.min(bins - 1, Math.floor((v / 255) * bins))
BinOf(v) == MinInt(bins - 1, (v * bins) \div 255)

\* The histogram the loop builds: entry ch*bins + b counts the sampled
\* pixels (i = 0, 4*sampleRate, ... < data.length) whose channel ch falls
\* into bin b.  occ[ch] is the set of bins channel ch touches; the other
\* entries keep their initial 0.
Histogram(frame, sampleRate) ==
    LET data     == frame.data
        len      == frame.width * frame.height * 4
        nSamples == (len + 4 * sampleRate - 1) \div (4 * sampleRate)
        samples  == {k * 4 * sampleRate : k \in 0..(nSamples - 1)}
        occ      == <<{BinOf(data[i]) : i \in samples},
                      {BinOf(data[i + 1]) : i \in samples},
                      {BinOf(data[i + 2]) : i \in samples}>>
    IN  [j \in 0..(bins * 3 - 1) |->
            IF (j % bins) \in occ[(j \div bins) + 1]
            THEN Cardinality({i \in samples :
                                 BinOf(data[i + (j \div bins)]) = j % bins})
            ELSE 0]

calculateHistogramDifference(frame1, frame2) ==
    IF frame1.width # frame2.width \/ frame1.height # frame2.height
    THEN ROne
    ELSE
    LET pixelCount == frame1.width * frame1.height
        sampleRate == MaxInt(1, pixelCount \div SampleTarget)
        total      == (pixelCount * 4) \div (4 * sampleRate)
        c1         == Histogram(frame1, sampleRate)
        c2         == Histogram(frame2, sampleRate)
        norm(c)    == IF total > 0 THEN RNorm(c, total) ELSE R(c)
        hist1      == [j \in 0..(bins * 3 - 1) |-> norm(c1[j])]
        hist2      == [j \in 0..(bins * 3 - 1) |-> norm(c2[j])]
        interTerm  == [j \in 0..(bins * 3 - 1) |-> RMin(hist1[j], hist2[j])]
        chiTerm    == [j \in 0..(bins * 3 - 1) |->
                         LET sum  == RAdd(hist1[j], hist2[j])
                             diff == RSub(hist1[j], hist2[j])
                         IN  IF sum[1] > 0
                             THEN RMul(RMul(diff, diff), <<sum[2], sum[1]>>)
                             ELSE RZero]
        intersection     == RSum(interTerm, 0, bins * 3 - 1)
        chiSquare        == RSum(chiTerm, 0, bins * 3 - 1)
        intersectionDiff == RSub(ROne, intersection)
        chiSquareDiff    == RMin(ROne, RDivInt(chiSquare, bins * 3))
    IN  RAdd(RMul(intersectionDiff, <<2, 5>>), RMul(chiSquareDiff, <<3, 5>>))

----------------------------------------------------------------------------
(* calculateStructuralDifference                                           *)

blockSize == 32

\* A variant of ChannelDiff that drops the Math.abs.
ChannelDiffSigned(v1, v2) == v1 - v2

\* Math.abs(frame1.data[idx + c] - frame2.data[idx + c])
ChannelDiff(v1, v2) == Abs(v1 - v2)

calculateStructuralDifference(frame1, frame2) ==
    LET width   == frame1.width
        height  == frame1.height
        blocksX == width \div blockSize
        blocksY == height \div blockSize
        pxDiff(x, y) ==
            LET idx == (y * width + x) * 4
            IN  ChannelDiff(frame1.data[idx], frame2.data[idx])
                + ChannelDiff(frame1.data[idx + 1], frame2.data[idx + 1])
                + ChannelDiff(frame1.data[idx + 2], frame2.data[idx + 2])
        pxCount(bx, by) ==
            MinInt(blockSize, width - bx * blockSize)
                * MinInt(blockSize, height - by * blockSize)
        \* blockDiff: the sum over the block of diff = pxDiff / (3 * 255)
        rowSum(bx, y) ==
            ISum([px \in 0..(blockSize - 1) |-> pxDiff(bx * blockSize + px, y)],
                 0, MinInt(blockSize, width - bx * blockSize) - 1)
        blockSum(bx, by) ==
            ISum([py \in 0..(blockSize - 1) |-> rowSum(bx, by * blockSize + py)],
                 0, MinInt(blockSize, height - by * blockSize) - 1)
        avgBlockDiff(bx, by) ==
            RNorm(blockSum(bx, by), 3 * 255 * pxCount(bx, by))
        blockIdx   == [k \in 0..(blocksX * blocksY - 1) |->
                         avgBlockDiff(k % blocksX, k \div blocksX)]
        blockCount == blocksX * blocksY
        totalDiff  == RSum(blockIdx, 0, blockCount - 1)
    IN  IF blockCount > 0 THEN RDivInt(totalDiff, blockCount) ELSE RZero

----------------------------------------------------------------------------
(* calculateFrameDifference (useHistogram = true, the only use)            *)

\* A variant of DimensionsDiffer that leaves the heights out.
WidthsDiffer(frame1, frame2) == frame1.width # frame2.width

\* frame1.width !== frame2.width || frame1.height !== frame2.height
DimensionsDiffer(frame1, frame2) ==
    frame1.width # frame2.width \/ frame1.height # frame2.height

calculateFrameDifference(frame1, frame2) ==
    IF DimensionsDiffer(frame1, frame2)
    THEN ROne
    ELSE LET histDiff   == calculateHistogramDifference(frame1, frame2)
             structDiff == calculateStructuralDifference(frame1, frame2)
         IN  RAdd(RMul(histDiff, <<3, 10>>), RMul(structDiff, <<7, 10>>))

----------------------------------------------------------------------------
(* calculateBlurScore: variance of the absolute Laplacian of the luma      *)

\* A variant of PixelIndex for three bytes a pixel.
PixelIndexRGB(x, y, width) == (y * width + x) * 3

\* idx = ((y + dy) * width + (x + dx)) * 4
PixelIndex(x, y, width) == (y * width + x) * 4

calculateBlurScore(imageData) ==
    LET width  == imageData.width
        height == imageData.height
        data   == imageData.data
        getGray(x, y) ==
            LET idx == PixelIndex(x, y, width)
            IN  RNorm(data[idx] * 299 + data[idx + 1] * 587 + data[idx + 2] * 114,
                      1000)
        laplacianValue(x, y) ==
            RAbs(RSub(RSub(RSub(RSub(RMul(R(4), getGray(x, y)),
                                     getGray(x, y - 1)),
                                getGray(x, y + 1)),
                           getGray(x - 1, y)),
                      getGray(x + 1, y)))
        cols == width - 2
        rows == height - 2
        n    == IF cols > 0 /\ rows > 0 THEN cols * rows ELSE 0
        \* laplacian[k]: the k-th value pushed, row by row
        laplacian == [k \in 0..(n - 1) |->
                         laplacianValue(1 + (k % cols), 1 + (k \div cols))]
        mean     == RDivInt(RSum(laplacian, 0, n - 1), n)
        \* the sum of Math.pow(val - m, 2), for the mean m computed above
        sqSum(m) == RSum([k \in 0..(n - 1) |->
                            LET dv == RSub(laplacian[k], m) IN RMul(dv, dv)],
                         0, n - 1)
        variance == IF mean[1] >= 0 THEN RDivInt(sqSum(mean), n) ELSE RZero
    IN  IF n = 0 THEN RZero ELSE variance

----------------------------------------------------------------------------
(* The frames the video source can show, and the scores the engine gets    *)
(* for them from the functions above.                                      *)

FrameKinds ==
    { Desc(32, 32, 0, Red, Red),
      Desc(32, 32, 0, Blue, Blue),
      Desc(32, 32, 16, Black, White),
      Desc(32, 32, 4, Black, White) }

\* Two pictures of one steady scene that differ by a column at the left
\* border: each is stable against the other, and they differ in sharpness.
SteadyKinds ==
    { Desc(32, 32, 1, Black, White),
      Desc(32, 32, 2, Black, White) }

\* The scores are computed once: the tables list <<argument, result>>.
DiffTable ==
    {<<p, calculateFrameDifference(ImageData(p[1]), ImageData(p[2]))>> :
        p \in (FrameKinds \X FrameKinds) \cup (SteadyKinds \X SteadyKinds)}

BlurTable ==
    {<<f, calculateBlurScore(ImageData(f))>> :
        f \in FrameKinds \cup SteadyKinds}

FrameDifference(f1, f2) == (CHOOSE e \in DiffTable : e[1] = <<f1, f2>>)[2]
BlurScore(f) == (CHOOSE e \in BlurTable : e[1] = f)[2]

----------------------------------------------------------------------------
(* ProcessingOptions and the video element                                 *)

\* video.duration: a finite number of milliseconds, NaN or Infinity.
Finite(ms) == [kind |-> "finite", value |-> ms]
NaN == [kind |-> "NaN", value |-> 0]
Infinity == [kind |-> "Infinity", value |-> 0]

\* null, for a frame, for a seek target and for a continuation.
NoFrame == Desc(0, 0, 0, Black, Black)
NoSeek == 0 - 1
Null == "null"

DefaultOptions ==
    [changeThreshold       |-> <<3, 25>>,
     minScreenshotInterval |-> 1000,
     sampleInterval        |-> 200,
     motionSmoothing       |-> 3,
     stabilityWindow       |-> 500,
     stabilityThreshold    |-> <<1, 20>>,
     minBlurThreshold      |-> R(100)]

\* Overrides a caller may pass: the shortest interval the page offers, and
\* a coarse sampling of a long video.
QuickOptions ==
    [DefaultOptions EXCEPT !.minScreenshotInterval = 250,
                           !.motionSmoothing = 2]

CoarseOptions == [DefaultOptions EXCEPT !.sampleInterval = 50000]

OptionSets == {DefaultOptions, QuickOptions, CoarseOptions}

MaxDuration == 2600

\* The scripted video: ScriptDuration long, red before ChangeAt, then blue.
ScriptDuration == 10000
ChangeAt == 3000

Durations ==
    {NaN, Infinity} \cup
    {Finite(ms) :
        ms \in {-1000, 0, 300, 1650, MaxDuration, ScriptDuration, 200800}}

\* What the video shows.  A free source shows any frame at any capture; a
\* constant one shows one frame throughout; the scripted one shows red, then
\* blue; a dull one shows, after the first capture, only frames blurrier
\* than minBlurThreshold; a steady one shows either picture of SteadyKinds.
FreeSource == [kind |-> "free", frame |-> NoFrame]
ConstantSource(f) == [kind |-> "constant", frame |-> f]
ScriptedSource == [kind |-> "scripted", frame |-> NoFrame]
DullSource == [kind |-> "dull", frame |-> NoFrame]
SteadySource == [kind |-> "steady", frame |-> NoFrame]

Sources ==
    {FreeSource, ScriptedSource, DullSource, SteadySource}
        \cup {ConstantSource(f) : f \in FrameKinds}

\* A video of minutes is sampled coarsely only; the scripted video is the
\* one of ScriptDuration, processed with the default options; the steady
\* one lasts MaxDuration and is processed with the default options.
Sampled(o, d, source) ==
    /\ (d.value > MaxDuration /\ source # ScriptedSource)
           => o.sampleInterval >= 50000
    /\ source = ScriptedSource <=> d = Finite(ScriptDuration)
    /\ source = ScriptedSource => o = DefaultOptions
    /\ source = SteadySource => (o = DefaultOptions /\ d = Finite(MaxDuration))

\* The callbacks made and the promise of processVideo.
NoCallback == [kind |-> "none", percent |-> RZero]
Progress(percent) == [kind |-> "progress", percent |-> percent]
ScreenshotCall == [kind |-> "screenshot", percent |-> RZero]

Pending == [state |-> "pending", value |-> <<>>]
Rejected == [state |-> "rejected", value |-> <<>>]
Fulfilled(list) == [state |-> "fulfilled", value |-> list]

\* What a run has done so far: the onProgress calls, the frames captured,
\* whether a seek timed out (console.warn), and the stable and sharp frames
\* sampled since the change that is waiting for its stability window.
NoTally ==
    [progress |-> 0, captures |-> 0, warned |-> FALSE, window |-> <<>>]

VARIABLES
    pc,                 \* where processVideo (or the comparison) stands
    cont,               \* where processVideo resumes when seekToTime resolves
    opts,               \* opts
    video,              \* readyState, videoWidth, videoHeight, duration
    env,                \* canvas context available; source fires loadeddata;
                        \* what the source shows; the caller wants to abort
    videoTime,          \* video.currentTime (the position last requested)
    shownTime,          \* position of the picture the element shows
    seekReq,            \* target of the seek the source is carrying out
    listening,          \* a wait of seekToTime is not resolved yet
    listeners,          \* the 'seeked' listeners registered on the element
    timers,             \* the 1 s timers of seekToTime that are armed
    seekedQueued,       \* a 'seeked' event is queued, not yet dispatched
    currentTime, currentFrame, baselineFrame, frameNumber,
    lastScreenshotTime, recentDifferences, changeDetectedAt, stableFrames,
    screenshots,
    sink,               \* the Screenshots onScreenshot was called with
    lastCallback,       \* the last callback made: its kind and percent
    returned,           \* what the promise settled with
    tally,              \* calls and captures counted
    fa, fb, dres,       \* a frame pair and its two differences
    model,              \* the module's COCO-SSD model, once loaded
    loadCalls,          \* the calls of cocoSsd.load() made so far
    calls               \* the calls of the object-detection processVideo

engineVars ==
    <<pc, cont, opts, video, env, videoTime, shownTime, seekReq, listening,
      listeners, timers, seekedQueued, currentTime, currentFrame, baselineFrame, frameNumber,
      lastScreenshotTime, recentDifferences, changeDetectedAt, stableFrames,
      screenshots, sink, lastCallback, returned, tally>>

diffVars == <<fa, fb, dres>>

ssdVars == <<model, loadCalls, calls>>

vars == <<engineVars, diffVars, ssdVars>>

sourceVars ==
    <<videoTime, shownTime, seekReq, listening, listeners, timers,
      seekedQueued>>

\* No call of the object-detection processVideo is made.
SsdIdle == model = Null /\ loadCalls = 0 /\ calls = <<>>

sampleVars ==
    <<currentTime, currentFrame, baselineFrame, frameNumber,
      lastScreenshotTime, recentDifferences, changeDetectedAt, stableFrames>>

outVars == <<screenshots, sink, lastCallback, returned>>

inputVars == <<opts, video, env>>

Init ==
    /\ pc = "start"
    /\ cont = Null
    /\ opts \in OptionSets
    /\ video \in [readyState  : {0, 4},
                  videoWidth  : {0, 32},
                  videoHeight : {32},
                  duration    : Durations]
    /\ env \in [context : BOOLEAN, loadeddata : BOOLEAN, source : Sources,
                 abort : BOOLEAN]
    /\ (video.readyState = 4 => env.loadeddata)
    /\ (env.abort => env.source.kind = "constant")
    /\ Sampled(opts, video.duration, env.source)
    /\ videoTime = 0
    /\ shownTime = 0
    /\ seekReq = NoSeek
    /\ listening = FALSE
    /\ listeners = 0
    /\ timers = 0
    /\ seekedQueued = FALSE
    /\ currentTime = 100
    /\ currentFrame = NoFrame
    /\ baselineFrame = NoFrame
    /\ frameNumber = 0
    /\ lastScreenshotTime = -1000
    /\ recentDifferences = <<>>
    /\ changeDetectedAt = 0
    /\ stableFrames = <<>>
    /\ screenshots = <<>>
    /\ sink = <<>>
    /\ lastCallback = NoCallback
    /\ returned = Pending
    /\ tally = NoTally
    /\ fa = NoFrame /\ fb = NoFrame /\ dres = <<>>
    /\ SsdIdle

----------------------------------------------------------------------------
(* seekToTime and the source's events.  A request for a new position      *)
(* replaces the seek in progress; a seek that completes queues one         *)
(* 'seeked' event, which is dispatched at any later point: no order is     *)
(* fixed between the timers of processVideo and the element's events.      *)

duration == video.duration.value

\* The position the element takes for a requested time.
Clamp(t) ==
    LET top == IF duration > 0 THEN duration ELSE 0
    IN  MaxInt(0, MinInt(t, top))

\* seekToTime(video, time), awaited; processVideo resumes at `next`.
seekToTime(time, next) ==
    IF Abs(videoTime - time) < 10
    THEN /\ pc' = next
         /\ cont' = Null
         /\ UNCHANGED sourceVars
    ELSE /\ pc' = "seeking"
         /\ cont' = next
         /\ listening' = TRUE
         /\ timers' = timers + 1
         /\ listeners' = listeners + 1
         /\ videoTime' = Clamp(time)
         /\ seekReq' = Clamp(time)
         /\ UNCHANGED <<shownTime, seekedQueued>>

Running ==
    pc \notin {"start", "done", "error", "idle", "compared", "structured",
               "unscored", "scored", "ssd"}

\* The source completes the seek it is carrying out: the element shows the
\* position asked for and queues its 'seeked' event.  The event queued by
\* one seek is dispatched before the source completes another.
SeekDone ==
    /\ Running
    /\ seekReq # NoSeek
    /\ ~seekedQueued
    /\ shownTime' = seekReq
    /\ seekReq' = NoSeek
    /\ seekedQueued' = TRUE
    /\ UNCHANGED <<pc, cont, videoTime, listening, listeners, timers,
                   inputVars, sampleVars, outVars, tally, diffVars, ssdVars>>

\* The 'seeked' event is dispatched: the listeners registered (once) are
\* called and removed; handleSeeked resolves the wait if it is not resolved,
\* and clears its timer.
Seeked ==
    /\ Running
    /\ seekedQueued
    /\ seekedQueued' = FALSE
    /\ IF listeners > 0 /\ listening
       THEN /\ pc' = cont
            /\ cont' = Null
            /\ listening' = FALSE
            /\ timers' = timers - 1
       ELSE UNCHANGED <<pc, cont, listening, timers>>
    /\ listeners' = 0
    /\ UNCHANGED <<videoTime, shownTime, seekReq, inputVars, sampleVars,
                   outVars, tally, diffVars, ssdVars>>

\* A variant of SeekTimeout that warns and does not resolve.
SeekTimeoutLost ==
    /\ pc = "seeking"
    /\ timers > 0 /\ listening
    /\ timers' = timers - 1
    /\ listening' = FALSE
    /\ listeners' = listeners - 1
    /\ tally' = [tally EXCEPT !.warned = TRUE]
    /\ UNCHANGED <<pc, cont, videoTime, shownTime, seekReq, seekedQueued,
                   inputVars, sampleVars, outVars, diffVars, ssdVars>>

\* A variant of SeekTimeout that leaves the 'seeked' listener registered.
SeekTimeoutListening ==
    /\ pc = "seeking"
    /\ timers > 0 /\ listening
    /\ timers' = timers - 1
    /\ listening' = FALSE
    /\ pc' = cont
    /\ cont' = Null
    /\ tally' = [tally EXCEPT !.warned = TRUE]
    /\ UNCHANGED <<videoTime, shownTime, seekReq, listeners, seekedQueued,
                   inputVars, sampleVars, outVars, diffVars, ssdVars>>

\* The 1000 ms timer of seekToTime fires first.
SeekTimeout ==
    /\ pc = "seeking"
    /\ timers > 0 /\ listening
    /\ timers' = timers - 1
    /\ listening' = FALSE
    /\ listeners' = listeners - 1
    /\ pc' = cont
    /\ cont' = Null
    /\ tally' = [tally EXCEPT !.warned = TRUE]
    /\ UNCHANGED <<videoTime, shownTime, seekReq, seekedQueued, inputVars,
                   sampleVars, outVars, diffVars, ssdVars>>

----------------------------------------------------------------------------
(* processVideo                                                            *)

\* captureFrame: null without a 2d context, else the picture `f` the
\* element shows.
captureFrame(f) == IF env.context THEN f ELSE NoFrame

\* A variant of Sharp with the comparison turned round.
SharpReversed(blurScore) == RLe(blurScore, opts.minBlurThreshold)

\* blurScore >= opts.minBlurThreshold
Sharp(blurScore) == RLe(opts.minBlurThreshold, blurScore)

\* The pictures the element can show now, at the position shownTime.
Shown ==
    CASE env.source.kind = "constant" -> {env.source.frame}
      [] env.source.kind = "scripted" ->
            {IF shownTime < ChangeAt THEN Desc(32, 32, 0, Red, Red)
                                     ELSE Desc(32, 32, 0, Blue, Blue)}
      [] env.source.kind = "steady" -> SteadyKinds
      [] env.source.kind = "dull" /\ tally.captures > 0 ->
            {f \in FrameKinds : RLt(BlurScore(f), opts.minBlurThreshold)}
      [] OTHER -> FrameKinds

Captured == [tally EXCEPT !.captures = @ + 1]

Shot(time, number, blur, frame) ==
    [timestamp |-> time, frameNumber |-> number, blurScore |-> blur,
     frame |-> frame]

Throw ==
    /\ pc' = "error"
    /\ returned' = Rejected
    /\ UNCHANGED <<cont, sourceVars, sampleVars, screenshots, sink,
                   lastCallback>>

\* The checks and the first seek that follow the wait for the video.
Setup ==
    IF ~env.context
    THEN Throw
    ELSE IF video.videoWidth = 0 \/ video.videoHeight = 0
    THEN Throw
    ELSE IF video.duration = NaN \/ video.duration = Finite(0)
            \/ video.duration = Infinity
    THEN Throw
    ELSE /\ seekToTime(100, "settleFirst")
         /\ UNCHANGED <<sampleVars, outVars>>

Start ==
    /\ pc = "start"
    /\ IF video.readyState < 2
       THEN /\ pc' = "waitLoaded"
            /\ UNCHANGED <<cont, sourceVars, sampleVars, outVars>>
       ELSE Setup
    /\ UNCHANGED <<inputVars, tally, diffVars, ssdVars>>

\* 'loadeddata' fires, if the source ever fires it.
LoadedData ==
    /\ pc = "waitLoaded"
    /\ env.loadeddata
    /\ video' = [video EXCEPT !.readyState = 4]
    /\ Setup
    /\ UNCHANGED <<opts, env, tally, diffVars, ssdVars>>

\* screenshots.push(screenshot); onScreenshot(screenshot)
Emit(shot) ==
    /\ screenshots' = Append(screenshots, shot)
    /\ sink' = Append(sink, shot)

\* currentTime = 0.1 + opts.stabilityWindow + opts.sampleInterval
FirstSampleTime == 100 + opts.stabilityWindow + opts.sampleInterval

\* A variant of FirstShot that numbers the Screenshot with the frame counter.
FirstShotCounted(stableFrame) ==
    Shot(100 + opts.stabilityWindow, frameNumber, BlurScore(stableFrame),
         stableFrame)

\* The first Screenshot, made of the frame captured at 0.1 + stabilityWindow.
FirstShot(stableFrame) ==
    Shot(100 + opts.stabilityWindow, 0, BlurScore(stableFrame), stableFrame)

\* After the 100 ms wait at 0.1 s: the baseline frame and the seek to the
\* first stable frame.
SettleFirst ==
    /\ pc = "settleFirst"
    /\ tally' = Captured
    /\ \E f \in Shown :
        LET firstFrame == captureFrame(f)
        IN  /\ currentFrame' = firstFrame
            /\ IF firstFrame # NoFrame
               THEN /\ currentTime' = 100
                    /\ baselineFrame' = firstFrame
                    /\ frameNumber' = frameNumber + 1
                    /\ seekToTime(100 + opts.stabilityWindow, "settleStable")
               ELSE /\ currentTime' = FirstSampleTime
                    /\ pc' = "loopTest"
                    /\ UNCHANGED <<cont, sourceVars, baselineFrame, frameNumber>>
    /\ UNCHANGED <<lastScreenshotTime, recentDifferences, changeDetectedAt,
                   stableFrames, inputVars, outVars, diffVars, ssdVars>>

\* After the 100 ms wait at 0.1 + stabilityWindow: the first Screenshot.
SettleStable ==
    /\ pc = "settleStable"
    /\ tally' = Captured
    /\ \E f \in Shown :
        LET stableFrame == captureFrame(f)
        IN  /\ currentFrame' = stableFrame
            /\ IF stableFrame # NoFrame
               THEN /\ Emit(FirstShot(stableFrame))
                    /\ lastCallback' = ScreenshotCall
                    /\ lastScreenshotTime' = 100 + opts.stabilityWindow
                    /\ baselineFrame' = stableFrame
               ELSE UNCHANGED <<screenshots, sink, lastCallback,
                                lastScreenshotTime, baselineFrame>>
    /\ currentTime' = FirstSampleTime
    /\ pc' = "loopTest"
    /\ UNCHANGED <<cont, sourceVars, frameNumber, recentDifferences,
                   changeDetectedAt, stableFrames, returned, inputVars,
                   diffVars, ssdVars>>

\* Stable Array.prototype.sort by a key, greatest first.
RECURSIVE InsertDesc(_, _, _)
InsertDesc(sorted, e, key) ==
    IF sorted = <<>> THEN <<e>>
    ELSE IF RLt(key[Head(sorted)], key[e])
    THEN <<e>> \o sorted
    ELSE <<Head(sorted)>> \o InsertDesc(Tail(sorted), e, key)

RECURSIVE SortDesc(_, _)
SortDesc(list, key) ==
    IF list = <<>> THEN <<>>
    ELSE InsertDesc(SortDesc(SubSeq(list, 1, Len(list) - 1), key),
                    list[Len(list)], key)

Range(list) == {list[i] : i \in 1..Len(list)}

\* stableFrames.sort((a, b) => b.blurScore - a.blurScore)
ByBlur(list) == SortDesc(list, [e \in Range(list) |-> e.blurScore])

\* a.blurScore * 0.7 + (1 - a.stability) * 0.3
CandidateScore(e) ==
    RAdd(RMul(e.blurScore, <<7, 10>>), RMul(RSub(ROne, e.stability), <<3, 10>>))

ByScore(list) == SortDesc(list, [e \in Range(list) |-> CandidateScore(e)])

Mean(list) ==
    RDivInt(RSum([i \in 1..Len(list) |-> list[i]], 1, Len(list)), Len(list))

\* A variant of ProgressPercent that drops the Math.min.
ProgressPercentUnclamped(time) == RNorm(time * 100, duration)

\* Math.min((currentTime / duration) * 100, 99.9)
ProgressPercent(time) == RMin(RNorm(time * 100, duration), <<999, 10>>)

\* onProgress(100, duration, duration)
TerminalPercent == R(100)

\* The gate of the final frame: Math.abs(duration - lastScreenshot.timestamp)
\* >= opts.minScreenshotInterval
FinalGate(last) == Abs(duration - last.timestamp) >= opts.minScreenshotInterval

\* The head of the while loop, and what follows the loop up to the seek to
\* the final frame.
LoopTest ==
    /\ pc = "loopTest"
    /\ IF currentTime < duration - 100
       THEN /\ lastCallback' = Progress(ProgressPercent(currentTime))
            /\ tally' = [tally EXCEPT !.progress = @ + 1]
            /\ pc' = "sample"
            /\ UNCHANGED <<cont, sourceVars, screenshots, sink>>
       ELSE /\ IF changeDetectedAt # 0 /\ Len(stableFrames) > 0
               THEN LET bestFrame == ByScore(stableFrames)[1]
                    IN  IF bestFrame.time - lastScreenshotTime
                              >= opts.minScreenshotInterval
                        THEN /\ Emit(Shot(bestFrame.time, frameNumber,
                                          bestFrame.blurScore, bestFrame.frame))
                             /\ lastCallback' = ScreenshotCall
                        ELSE UNCHANGED <<screenshots, sink, lastCallback>>
               ELSE UNCHANGED <<screenshots, sink, lastCallback>>
            /\ seekToTime(MaxInt(0, duration - 100), "settleFinal")
            /\ UNCHANGED tally
    /\ UNCHANGED <<sampleVars, returned, inputVars, diffVars, ssdVars>>

\* currentTime += opts.sampleInterval, and the seek to it if the loop goes on
NextSample ==
    /\ currentTime' = currentTime + opts.sampleInterval
    /\ IF currentTime + opts.sampleInterval < duration - 100
       THEN seekToTime(currentTime + opts.sampleInterval, "loopTest")
       ELSE /\ pc' = "loopTest"
            /\ UNCHANGED <<cont, sourceVars>>

\* A variant of Recent that drops the newest difference, not the oldest.
RecentNewestDropped(difference) ==
    IF Len(recentDifferences) >= opts.motionSmoothing
    THEN recentDifferences
    ELSE Append(recentDifferences, difference)

\* recentDifferences after the push and the shift
Recent(difference) ==
    LET pushed == Append(recentDifferences, difference)
    IN  IF Len(pushed) > opts.motionSmoothing THEN Tail(pushed) ELSE pushed

\* A variant of Collected that also stores frames of an open change window.
CollectedInWindow(frame, difference, blurScore) ==
    IF /\ RLt(difference, opts.stabilityThreshold)
       /\ Sharp(blurScore)
    THEN LET more == Append(stableFrames,
                            [time      |-> currentTime,
                             frame     |-> frame,
                             stability |-> difference,
                             blurScore |-> blurScore])
         IN  IF Len(more) > 5 THEN SubSeq(ByBlur(more), 1, 5) ELSE more
    ELSE stableFrames

\* A variant of Collected that keeps the five newest frames.
CollectedNewest(frame, difference, blurScore) ==
    IF /\ RLt(difference, opts.stabilityThreshold)
       /\ changeDetectedAt = 0
       /\ Sharp(blurScore)
    THEN LET more == Append(stableFrames,
                            [time      |-> currentTime,
                             frame     |-> frame,
                             stability |-> difference,
                             blurScore |-> blurScore])
         IN  IF Len(more) > 5 THEN SubSeq(more, 2, 6) ELSE more
    ELSE stableFrames

\* stableFrames after the stable and sharp frame, if it is one, is stored
Collected(frame, difference, blurScore) ==
    IF /\ RLt(difference, opts.stabilityThreshold)
       /\ changeDetectedAt = 0
       /\ Sharp(blurScore)
    THEN LET more == Append(stableFrames,
                            [time      |-> currentTime,
                             frame     |-> frame,
                             stability |-> difference,
                             blurScore |-> blurScore])
         IN  IF Len(more) > 5 THEN SubSeq(ByBlur(more), 1, 5) ELSE more
    ELSE stableFrames

\* A variant of isSignificantChange that wants both tests to pass.
isSignificantChangeBoth(difference, recent) ==
    /\ RLt(opts.changeThreshold, Mean(recent))
    /\ RLt(RMul(opts.changeThreshold, <<3, 2>>), difference)

\* smoothedDifference > opts.changeThreshold ||
\* difference > opts.changeThreshold * 1.5
isSignificantChange(difference, recent) ==
    \/ RLt(opts.changeThreshold, Mean(recent))
    \/ RLt(RMul(opts.changeThreshold, <<3, 2>>), difference)

\* A variant of SkipAhead that advances by the sampling interval.
SkipAheadSample == opts.sampleInterval

\* opts.minScreenshotInterval * 0.5
SkipAhead == opts.minScreenshotInterval \div 2

\* A variant of FallbackShot stamped with the time of the detection.
FallbackShotAtChange(frame, blurScore) ==
    Shot(changeDetectedAt, frameNumber + 1, blurScore, frame)

\* The Screenshot made of the current frame when no stable frame is stored.
FallbackShot(frame, blurScore) ==
    Shot(currentTime, frameNumber + 1, blurScore, frame)

\* A variant of NewBaseline that keeps the old baseline.
NewBaselineKept(frame) == baselineFrame

\* baselineFrame = currentFrame, after the Screenshot of the current frame
NewBaseline(frame) == frame

\* A variant of ResetDifferences that keeps the differences.
ResetDifferencesKept == recentDifferences

\* recentDifferences.length = 0
ResetDifferences == <<>>

\* A variant of IntervalPassed that lets every window end emit.
IntervalPassedAlways == TRUE

\* currentTime - lastScreenshotTime >= opts.minScreenshotInterval
IntervalPassed ==
    currentTime - lastScreenshotTime >= opts.minScreenshotInterval

\* A variant of WindowOver that does not wait.
WindowOverAtOnce(changeAt) == changeAt # 0

\* changeDetectedAt && (currentTime - changeDetectedAt) >= opts.stabilityWindow
WindowOver(changeAt) ==
    changeAt # 0 /\ currentTime - changeAt >= opts.stabilityWindow

\* The end of the stability window: a Screenshot of the best stored frame,
\* or of the current frame if none is stored and it is sharp; then the reset
\* and the skip ahead (continue).
Resolve(frame, blurScore, candidates) ==
    /\ IF /\ Len(candidates) > 0
          /\ IntervalPassed
       THEN \E bestFrame \in {ByScore(candidates)[1]} :
               /\ Emit(Shot(bestFrame.time, frameNumber + 1,
                            bestFrame.blurScore, bestFrame.frame))
               /\ lastCallback' = ScreenshotCall
               /\ lastScreenshotTime' = bestFrame.time
               /\ baselineFrame' = bestFrame.frame
       ELSE IF /\ Len(candidates) = 0
               /\ IntervalPassed
               /\ Sharp(blurScore)
       THEN /\ Emit(FallbackShot(frame, blurScore))
            /\ lastCallback' = ScreenshotCall
            /\ lastScreenshotTime' = currentTime
            /\ baselineFrame' = NewBaseline(frame)
       ELSE UNCHANGED <<screenshots, sink, lastCallback, lastScreenshotTime,
                        baselineFrame>>
    /\ changeDetectedAt' = 0
    /\ stableFrames' = <<>>
    /\ recentDifferences' = ResetDifferences
    /\ currentTime' = currentTime + SkipAhead
    /\ pc' = "loopTest"
    /\ UNCHANGED <<cont, sourceVars>>

\* The frames recorded as sampled in the stability window, after this one.
Windowed(frame, difference, blurScore, detected) ==
    IF detected THEN <<>>
    ELSE IF /\ changeDetectedAt # 0
            /\ RLt(difference, opts.stabilityThreshold)
            /\ RLe(opts.minBlurThreshold, blurScore)
    THEN Append(tally.window, [time      |-> currentTime,
                               frame     |-> frame,
                               stability |-> difference,
                               blurScore |-> blurScore])
    ELSE tally.window

\* The change test and what follows it, for the frame's scores.
Detect(frame, blurScore, recent, detected, collected, seen) ==
    LET changeAt   == IF detected THEN currentTime ELSE changeDetectedAt
        candidates == IF detected THEN <<>> ELSE collected
    IN  IF WindowOver(changeAt)
        THEN /\ Resolve(frame, blurScore, candidates)
             /\ tally' = [Captured EXCEPT !.window = <<>>]
        ELSE /\ changeDetectedAt' = changeAt
             /\ stableFrames' = candidates
             /\ recentDifferences' = recent
             /\ tally' = [Captured EXCEPT !.window = seen]
             /\ NextSample
             /\ UNCHANGED <<screenshots, sink, lastCallback,
                            lastScreenshotTime, baselineFrame>>

Analyse(frame, difference, blurScore, recent, detected) ==
    /\ frameNumber' = frameNumber + 1
    /\ Detect(frame, blurScore, recent, detected,
              Collected(frame, difference, blurScore),
              Windowed(frame, difference, blurScore, detected))

\* One iteration of the loop body, after its 50 ms wait.
Sample ==
    /\ pc = "sample"
    /\ \E f \in Shown :
        /\ currentFrame' = captureFrame(f)
        /\ IF captureFrame(f) # NoFrame /\ baselineFrame # NoFrame
           THEN \E difference \in {FrameDifference(baselineFrame, f)} :
                   Analyse(f, difference, BlurScore(f), Recent(difference),
                           /\ isSignificantChange(difference,
                                                  Recent(difference))
                           /\ changeDetectedAt = 0)
           ELSE /\ NextSample
                /\ tally' = Captured
                /\ UNCHANGED <<frameNumber, changeDetectedAt, stableFrames,
                               recentDifferences, screenshots, sink,
                               lastCallback, lastScreenshotTime, baselineFrame>>
    /\ UNCHANGED <<returned, inputVars, diffVars, ssdVars>>

\* A variant of FinalShots without the blur test.
FinalShotsUngated(finalFrame, blurScore) ==
    IF finalFrame = NoFrame THEN <<>>
    ELSE IF Len(screenshots) > 0
    THEN IF FinalGate(screenshots[Len(screenshots)])
         THEN <<Shot(duration - 100, frameNumber + 1, blurScore, finalFrame)>>
         ELSE <<>>
    ELSE <<Shot(duration - 100, 0, blurScore, finalFrame)>>

\* The Screenshot of the final frame, if it is made.
FinalShots(finalFrame, blurScore) ==
    IF finalFrame = NoFrame THEN <<>>
    ELSE IF Len(screenshots) > 0
    THEN IF /\ FinalGate(screenshots[Len(screenshots)])
            /\ Sharp(blurScore)
         THEN <<Shot(duration - 100, frameNumber + 1, blurScore, finalFrame)>>
         ELSE <<>>
    ELSE IF Sharp(blurScore)
    THEN <<Shot(duration - 100, 0, blurScore, finalFrame)>>
    ELSE <<>>

\* After the 100 ms wait at the final position: the final frame, the last
\* progress report and the result.
SettleFinal ==
    /\ pc = "settleFinal"
    /\ tally' = [tally EXCEPT !.captures = @ + 1, !.progress = @ + 1]
    /\ \E f \in Shown :
        \E emitted \in {FinalShots(captureFrame(f), BlurScore(f))} :
            /\ currentFrame' = captureFrame(f)
            /\ screenshots' = screenshots \o emitted
            /\ sink' = sink \o emitted
            /\ returned' = Fulfilled(screenshots \o emitted)
    /\ lastCallback' = Progress(TerminalPercent)
    /\ pc' = "done"
    /\ UNCHANGED <<cont, sourceVars, currentTime, baselineFrame, frameNumber,
                   lastScreenshotTime, recentDifferences, changeDetectedAt,
                   stableFrames, inputVars, diffVars, ssdVars>>

Next ==
    \/ Start
    \/ LoadedData
    \/ SeekDone
    \/ Seeked
    \/ SeekTimeout
    \/ SettleFirst
    \/ SettleStable
    \/ LoopTest
    \/ Sample
    \/ SettleFinal

Spec == Init /\ [][Next]_vars

\* The timer armed by seekToTime fires if nothing clears it.
SpecTimer == Spec /\ WF_vars(SeekTimeout)

----------------------------------------------------------------------------
(* The difference of a pair of frames, taken both ways.                    *)

DiffFrames ==
    FrameKinds \cup
    { Desc(32, 32, 8, White, Grey), Desc(32, 32, 17, Black, White),
      Desc(33, 32, 16, Black, White), Desc(33, 32, 0, Red, Red),
      Desc(33, 32, 0, Blue, Blue), Desc(32, 33, 0, Red, Red),
      Desc(33, 32, 32, Red, Blue), Desc(16, 16, 0, Red, Red),
      Desc(16, 16, 0, Blue, Blue) }

\* An ImageData of the frame's size whose data holds no pixel.
Header(d) == [width |-> d.w, height |-> d.h, data |-> <<>>]

EngineIdle ==
    /\ opts = DefaultOptions
    /\ video = [readyState |-> 0, videoWidth |-> 0, videoHeight |-> 0,
                duration |-> NaN]
    /\ env = [context |-> FALSE, loadeddata |-> FALSE,
               source |-> FreeSource, abort |-> FALSE]
    /\ cont = Null
    /\ videoTime = 0 /\ shownTime = 0 /\ seekReq = NoSeek /\ listening = FALSE
    /\ listeners = 0 /\ timers = 0 /\ seekedQueued = FALSE
    /\ currentTime = 100 /\ currentFrame = NoFrame /\ baselineFrame = NoFrame
    /\ frameNumber = 0 /\ lastScreenshotTime = -1000
    /\ recentDifferences = <<>> /\ changeDetectedAt = 0 /\ stableFrames = <<>>
    /\ screenshots = <<>> /\ sink = <<>> /\ lastCallback = NoCallback
    /\ returned = Pending /\ tally = NoTally

InitDiff ==
    /\ pc = "idle"
    /\ EngineIdle
    /\ fa \in DiffFrames
    /\ fb \in DiffFrames
    /\ dres = <<>>
    /\ SsdIdle

Compare ==
    /\ pc = "idle"
    /\ pc' = "compared"
    /\ dres' = <<calculateFrameDifference(ImageData(fa), ImageData(fb)),
                 calculateFrameDifference(ImageData(fb), ImageData(fa))>>
    /\ UNCHANGED <<fa, fb, cont, inputVars, sourceVars, sampleVars, outVars,
                   tally, ssdVars>>

\* calculateStructuralDifference alone, as calculateFrameDifference calls
\* it: for two frames of one size.
Structure ==
    /\ pc = "idle"
    /\ ~DimensionsDiffer(Header(fa), Header(fb))
    /\ pc' = "structured"
    /\ dres' = <<calculateStructuralDifference(ImageData(fa), ImageData(fb))>>
    /\ UNCHANGED <<fa, fb, cont, inputVars, sourceVars, sampleVars, outVars,
                   tally, ssdVars>>

SpecDiff == InitDiff /\ [][Compare \/ Structure]_vars

----------------------------------------------------------------------------
(* The blur score of a frame.                                              *)

MaxSide == 5

\* Frames of every size up to MaxSide: of one colour, or of two with a
\* boundary after the first or the second column.
BlurFrames ==
    {Desc(w, h, 0, c, c) :
        w \in 1..MaxSide, h \in 1..MaxSide,
        c \in {Black, White, Grey, Red, Blue}}
    \cup
    {Desc(w, h, at, c1, c2) :
        w \in 1..MaxSide, h \in 1..MaxSide, at \in {1, 2},
        c1 \in {Black, Grey}, c2 \in {White, Grey}}

InitBlur ==
    /\ pc = "unscored"
    /\ EngineIdle
    /\ fa \in BlurFrames
    /\ fb = NoFrame
    /\ dres = <<>>
    /\ SsdIdle

Score ==
    /\ pc = "unscored"
    /\ pc' = "scored"
    /\ dres' = <<calculateBlurScore(ImageData(fa))>>
    /\ UNCHANGED <<fa, fb, cont, inputVars, sourceVars, sampleVars, outVars,
                   tally, ssdVars>>

SpecBlur == InitBlur /\ [][Score]_vars

----------------------------------------------------------------------------
(* The object-detection processVideo (COCO-SSD) and loadModel              *)

MIN_SCREENSHOT_INTERVAL == 1000
CHANGE_THRESHOLD == <<1, 2>>
SAMPLE_INTERVAL == 500

\* A detected object: its class and its bbox [x, y, width, height].
Detected(class, x, y, w, h) == [class |-> class, bbox |-> <<x, y, w, h>>]

\* What model.detect can return for a frame: nothing, a person, the person
\* nudged, the person moved, the person and a tie, and the two the other
\* way round.
Detections ==
    { <<>>,
      <<Detected("person", 0, 0, 10, 10)>>,
      <<Detected("person", 1, 0, 10, 10)>>,
      <<Detected("person", 5, 0, 10, 10)>>,
      <<Detected("person", 0, 0, 10, 10), Detected("tie", 4, 2, 2, 6)>>,
      <<Detected("tie", 4, 2, 2, 5), Detected("person", 1, 0, 10, 10)>> }

calculateBoxOverlap(box1, box2) ==
    LET interX1 == MaxInt(box1[1], box2[1])
        interY1 == MaxInt(box1[2], box2[2])
        interX2 == MinInt(box1[1] + box1[3], box2[1] + box2[3])
        interY2 == MinInt(box1[2] + box1[4], box2[2] + box2[4])
        interArea == (interX2 - interX1) * (interY2 - interY1)
        unionArea == box1[3] * box1[4] + box2[3] * box2[4] - interArea
    IN  IF interX2 <= interX1 \/ interY2 <= interY1 THEN RZero
        ELSE IF unionArea > 0 THEN RNorm(interArea, unionArea) ELSE RZero

\* The inner loop: <<bestOverlap, bestIndex>> after the indices i.. of
\* objects2 are tried for obj1 (index 0 stands for the code's -1).
RECURSIVE BestMatch(_, _, _, _, _)
BestMatch(obj1, objects2, usedIndices, i, best) ==
    IF i > Len(objects2) THEN best
    ELSE IF /\ i \notin usedIndices
            /\ RLt(best[1], calculateBoxOverlap(obj1.bbox, objects2[i].bbox))
            /\ obj1.class = objects2[i].class
    THEN BestMatch(obj1, objects2, usedIndices, i + 1,
                   <<calculateBoxOverlap(obj1.bbox, objects2[i].bbox), i>>)
    ELSE BestMatch(obj1, objects2, usedIndices, i + 1, best)

\* The outer loop: totalOverlap after the objects k.. of objects1.
RECURSIVE TotalOverlap(_, _, _, _, _)
TotalOverlap(objects1, objects2, k, usedIndices, totalOverlap) ==
    IF k > Len(objects1) THEN totalOverlap
    ELSE LET best == BestMatch(objects1[k], objects2, usedIndices, 1,
                               <<RZero, 0>>)
         IN  IF best[2] >= 1
             THEN TotalOverlap(objects1, objects2, k + 1,
                               usedIndices \cup {best[2]},
                               RAdd(totalOverlap, best[1]))
             ELSE TotalOverlap(objects1, objects2, k + 1, usedIndices,
                               totalOverlap)

calculateObjectSimilarity(objects1, objects2) ==
    IF Len(objects1) = 0 /\ Len(objects2) = 0 THEN ROne
    ELSE IF Len(objects1) = 0 \/ Len(objects2) = 0 THEN RZero
    ELSE RMul(TotalOverlap(objects1, objects2, 1, {}, RZero),
              RNorm(2, Len(objects1) + Len(objects2)))

\* The similarities are computed once: <<argument, result>>.
SimilarityTable ==
    {<<p, calculateObjectSimilarity(p[1], p[2])>> :
        p \in Detections \X Detections}

ObjectSimilarity(objects1, objects2) ==
    (CHOOSE e \in SimilarityTable : e[1] = <<objects1, objects2>>)[2]

\* similarity < CHANGE_THRESHOLD ||
\* Math.abs(currentObjects.length - lastObjects.length) > 0
hasSignificantChange(lastObjects, currentObjects) ==
    \/ RLt(ObjectSimilarity(lastObjects, currentObjects), CHANGE_THRESHOLD)
    \/ Abs(Len(currentObjects) - Len(lastObjects)) > 0

SsdMaxDuration == 3100

\* The calls made: the first on any video, the second on a short one.
Callers == {1, 2}

SsdDurations(c) ==
    IF c = 1
    THEN {NaN, Infinity} \cup
         {Finite(ms) : ms \in {-1000, 0, 600, 1650, SsdMaxDuration}}
    ELSE {NaN, Finite(600)}

\* The state of a call before processVideo runs, for its video element.
SsdCall(v, context, loadeddata) ==
    [pc |-> "start", cont |-> Null, video |-> v, context |-> context,
     loadeddata |-> loadeddata, videoTime |-> 0, currentTime |-> 0,
     lastObjects |-> <<>>, frameNumber |-> 0,
     lastScreenshotTime |-> -1000, screenshots |-> <<>>, sink |-> <<>>,
     lastCallback |-> NoCallback, returned |-> Pending]

SsdInputs(c) ==
    {s \in {SsdCall(v, context, loadeddata) :
                v \in [readyState  : {0, 4},
                       videoWidth  : IF c = 1 THEN {0, 32} ELSE {32},
                       videoHeight : {32},
                       duration    : SsdDurations(c)],
                context \in IF c = 1 THEN BOOLEAN ELSE {TRUE},
                loadeddata \in BOOLEAN} :
        (s.video.readyState = 4 \/ c = 2) => s.loadeddata}

InitSsd ==
    /\ pc = "ssd"
    /\ EngineIdle
    /\ fa = NoFrame /\ fb = NoFrame /\ dres = <<>>
    /\ model = Null
    /\ loadCalls = 0
    /\ calls \in [Callers -> UNION {SsdInputs(c) : c \in Callers}]
    /\ \A c \in Callers : calls[c] \in SsdInputs(c)

engineAll ==
    <<pc, cont, opts, video, env, sourceVars, sampleVars, outVars, tally,
      diffVars>>

\* loadModel, up to its await: cocoSsd.load() is called if no model is set.
SsdLoadModel(c) ==
    /\ calls[c].pc = "start"
    /\ IF model = Null
       THEN /\ loadCalls' = loadCalls + 1
            /\ calls' = [calls EXCEPT ![c].pc = "loading"]
       ELSE /\ calls' = [calls EXCEPT ![c].pc = "ready"]
            /\ UNCHANGED loadCalls
    /\ UNCHANGED <<model, engineAll>>

\* cocoSsd.load() resolves: model = await cocoSsd.load()
SsdLoaded(c) ==
    /\ calls[c].pc = "loading"
    /\ model' = "loaded"
    /\ calls' = [calls EXCEPT ![c].pc = "ready"]
    /\ UNCHANGED <<loadCalls, engineAll>>

\* cocoSsd.load() rejects: loadModel throws and processVideo throws
\* 'Model loading failed'.
SsdLoadFailed(c) ==
    /\ calls[c].pc = "loading"
    /\ calls' = [calls EXCEPT ![c].pc = "loadError", ![c].returned = Rejected]
    /\ UNCHANGED <<model, loadCalls, engineAll>>

\* seekToTime(video, time) of the call with state s, resumed at `next`.
SsdSeek(s, time, next) ==
    IF Abs(s.videoTime - time) < 10
    THEN [s EXCEPT !.pc = next, !.cont = Null]
    ELSE [s EXCEPT !.pc = "seeking", !.cont = next,
                   !.videoTime =
                       MaxInt(0, MinInt(time, MaxInt(0, s.video.duration.value)))]

SsdThrow(s) == [s EXCEPT !.pc = "error", !.returned = Rejected]

\* The checks that follow the wait for the video, and the first seek.
SsdSetup(s) ==
    IF ~s.context THEN SsdThrow(s)
    ELSE IF s.video.videoWidth = 0 \/ s.video.videoHeight = 0 THEN SsdThrow(s)
    ELSE IF s.video.duration = NaN \/ s.video.duration = Finite(0)
            \/ s.video.duration = Infinity
    THEN SsdThrow(s)
    ELSE SsdSeek(s, 0, "loopTest")

SsdStart(c) ==
    /\ calls[c].pc = "ready"
    /\ calls' = [calls EXCEPT ![c] =
                    IF calls[c].video.readyState < 2
                    THEN [calls[c] EXCEPT !.pc = "waitLoaded"]
                    ELSE SsdSetup(calls[c])]
    /\ UNCHANGED <<model, loadCalls, engineAll>>

SsdLoadedData(c) ==
    /\ calls[c].pc = "waitLoaded"
    /\ calls[c].loadeddata
    /\ calls' = [calls EXCEPT ![c] =
                    SsdSetup([calls[c] EXCEPT !.video.readyState = 4])]
    /\ UNCHANGED <<model, loadCalls, engineAll>>

\* 'seeked' fires and handleSeeked resolves the wait.
SsdSeeked(c) ==
    /\ calls[c].pc = "seeking"
    /\ calls' = [calls EXCEPT ![c].pc = calls[c].cont, ![c].cont = Null]
    /\ UNCHANGED <<model, loadCalls, engineAll>>

\* The 1000 ms timer of seekToTime fires first.
SsdSeekTimeout(c) ==
    /\ calls[c].pc = "seeking"
    /\ calls' = [calls EXCEPT ![c].pc = calls[c].cont, ![c].cont = Null]
    /\ UNCHANGED <<model, loadCalls, engineAll>>

\* Math.min((currentTime / duration) * 100, 99.9)
SsdPercent(s) ==
    RMin(RNorm(s.currentTime * 100, s.video.duration.value), <<999, 10>>)

\* The head of the while loop, and the seek to the final frame after it.
SsdLoopTest(c) ==
    /\ calls[c].pc = "loopTest"
    /\ calls' = [calls EXCEPT ![c] =
          IF calls[c].currentTime < calls[c].video.duration.value - 100
          THEN [calls[c] EXCEPT !.pc = "sample",
                                !.lastCallback = Progress(SsdPercent(calls[c]))]
          ELSE SsdSeek(calls[c],
                       MaxInt(0, calls[c].video.duration.value - 100), "final")]
    /\ UNCHANGED <<model, loadCalls, engineAll>>

SsdShot(time, number) == [timestamp |-> time, frameNumber |-> number]

SsdEmit(s, shot) ==
    [s EXCEPT !.screenshots = Append(@, shot), !.sink = Append(@, shot),
              !.lastCallback = ScreenshotCall,
              !.lastScreenshotTime = shot.timestamp]

\* A variant of SsdInterval that tests the sampling interval.
SsdIntervalShort(s) == s.currentTime - s.lastScreenshotTime >= SAMPLE_INTERVAL

\* currentTime - lastScreenshotTime >= MIN_SCREENSHOT_INTERVAL
SsdInterval(s) ==
    s.currentTime - s.lastScreenshotTime >= MIN_SCREENSHOT_INTERVAL

\* The loop body after model.detect resolved with currentObjects.
SsdDetected(s, currentObjects) ==
    IF Len(s.screenshots) = 0
    THEN [SsdEmit(s, SsdShot(s.currentTime, 0)) EXCEPT
              !.frameNumber = s.frameNumber + 1,
              !.lastObjects = currentObjects]
    ELSE IF Len(s.lastObjects) > 0 \/ Len(currentObjects) > 0
    THEN IF hasSignificantChange(s.lastObjects, currentObjects)
            /\ SsdInterval(s)
         THEN [SsdEmit(s, SsdShot(s.currentTime, s.frameNumber + 1)) EXCEPT
                   !.frameNumber = s.frameNumber + 1,
                   !.lastObjects = currentObjects]
         ELSE [s EXCEPT !.frameNumber = s.frameNumber + 1,
                        !.lastObjects = currentObjects]
    ELSE [s EXCEPT !.frameNumber = s.frameNumber + 1,
                   !.lastObjects = currentObjects]

\* currentTime += SAMPLE_INTERVAL, and the seek if the loop goes on
SsdNextSample(s) ==
    IF s.currentTime + SAMPLE_INTERVAL < s.video.duration.value - 100
    THEN SsdSeek([s EXCEPT !.currentTime = @ + SAMPLE_INTERVAL],
                 s.currentTime + SAMPLE_INTERVAL, "loopTest")
    ELSE [s EXCEPT !.currentTime = @ + SAMPLE_INTERVAL, !.pc = "loopTest"]

\* One iteration of the loop body; detectObjects returns [] if model.detect
\* throws.
SsdSample(c) ==
    /\ calls[c].pc = "sample"
    /\ \E currentObjects \in Detections :
          calls' = [calls EXCEPT ![c] =
                       SsdNextSample(SsdDetected(calls[c], currentObjects))]
    /\ UNCHANGED <<model, loadCalls, engineAll>>

\* Math.abs(duration - lastScreenshot.timestamp) >= MIN_SCREENSHOT_INTERVAL
SsdFinalGate(s) ==
    Abs(s.video.duration.value - s.screenshots[Len(s.screenshots)].timestamp)
        >= MIN_SCREENSHOT_INTERVAL

\* The Screenshot of the final frame, if it is made.
SsdFinalShot(s) ==
    IF Len(s.screenshots) > 0 /\ SsdFinalGate(s)
    THEN SsdEmit(s, SsdShot(s.video.duration.value, s.frameNumber + 1))
    ELSE s

SsdReturn(s) ==
    [s EXCEPT !.pc = "done",
              !.lastCallback = Progress(TerminalPercent),
              !.returned = Fulfilled(s.screenshots)]

\* After the 100 ms wait at the final position: the final frame, the last
\* progress report and the result.
SsdFinal(c) ==
    /\ calls[c].pc = "final"
    /\ calls' = [calls EXCEPT ![c] = SsdReturn(SsdFinalShot(calls[c]))]
    /\ UNCHANGED <<model, loadCalls, engineAll>>

NextSsd ==
    \E c \in Callers :
        \/ SsdLoadModel(c)
        \/ SsdLoaded(c)
        \/ SsdLoadFailed(c)
        \/ SsdStart(c)
        \/ SsdLoadedData(c)
        \/ SsdSeeked(c)
        \/ SsdSeekTimeout(c)
        \/ SsdLoopTest(c)
        \/ SsdSample(c)
        \/ SsdFinal(c)

SpecSsd == InitSsd /\ [][NextSsd]_vars

----------------------------------------------------------------------------
(* Properties of processVideo, under Spec                                  *)

Settled == pc \in {"done", "error"}

Gap(list, i) == list[i + 1].timestamp - list[i].timestamp

\* The duration, width and height the contract calls invalid.
InvalidInput ==
    \/ video.videoWidth = 0
    \/ video.videoHeight = 0
    \/ video.duration.kind # "finite"
    \/ video.duration.value <= 0

\* C1: any two consecutively emitted Screenshots are at least
\* minScreenshotInterval apart: the later timestamp minus the earlier one is
\* >= opts.minScreenshotInterval.
C1_MinSpacing ==
    \A i \in 1..(Len(sink) - 1) : Gap(sink, i) >= opts.minScreenshotInterval

\* C2: onScreenshot has been called exactly once for each emitted Screenshot,
\* in the order of the list processVideo returns, and the timestamps of
\* successive calls are strictly increasing.
C2_OrderedCalls ==
    /\ sink = screenshots
    /\ returned.state = "fulfilled" => returned.value = sink
    /\ \A i \in 1..(Len(sink) - 1) : Gap(sink, i) > 0

\* C3: every run terminates: as long as processVideo has neither returned
\* nor thrown, some step of it or of the source it waits for can happen.
C3_Terminates == Settled \/ ENABLED Next

\* C4: every onProgress call before the terminal one reports a percent in
\* [0, 99.9], and the last callback of a completed run is onProgress(100).
C4_ProgressRange ==
    /\ (lastCallback.kind = "progress" /\ pc # "done") =>
           /\ RLe(RZero, lastCallback.percent)
           /\ RLe(lastCallback.percent, <<999, 10>>)
    /\ pc = "sample" => lastCallback.kind = "progress"
    /\ pc = "done" => lastCallback = Progress(R(100))

\* C4's case: a progress report of the loop that the clamp cut to 99.9.
C4_Clamped ==
    /\ pc = "sample"
    /\ lastCallback = Progress(<<999, 10>>)
    /\ RLt(<<999, 10>>, RNorm(currentTime * 100, duration))

\* C5: however a run ends, its last callback is the progress report of 100
\* and it returns the Screenshots emitted so far.
C5_AlwaysReports ==
    Settled => /\ lastCallback = Progress(R(100))
               /\ returned = Fulfilled(screenshots)

\* C6: with zero width or height, or a duration that is not finite or is
\* <= 0, processVideo fails before any sampling: it makes no seek, captures
\* no frame and calls neither onProgress nor onScreenshot.
C6_FailsFast ==
    InvalidInput =>
        /\ pc \in {"start", "waitLoaded", "error"}
        /\ videoTime = 0 /\ seekReq = NoSeek /\ ~listening
        /\ currentFrame = NoFrame
        /\ lastCallback = NoCallback
        /\ sink = <<>>

\* C7: the frame captured at 0.1 + stabilityWindow is emitted as the first
\* Screenshot, with sequence index 0 and whatever its blur score, and it
\* becomes the baseline in place of the first captured frame.
C7_BootstrapEmitted ==
    [][(pc = "settleStable" /\ pc' = "loopTest") =>
          /\ screenshots' = <<[timestamp   |-> 100 + opts.stabilityWindow,
                               frameNumber |-> 0,
                               blurScore   |-> BlurScore(currentFrame'),
                               frame       |-> currentFrame']>>
          /\ sink' = screenshots'
          /\ lastCallback' = ScreenshotCall
          /\ baselineFrame' = currentFrame'
          /\ lastScreenshotTime' = 100 + opts.stabilityWindow]_vars

\* C7's case: the first Screenshot has just been made of a frame blurrier
\* than minBlurThreshold, and that frame is now the baseline.
C7_BlurryBootstrap ==
    /\ pc = "loopTest"
    /\ frameNumber = 1
    /\ Len(screenshots) = 1
    /\ RLt(screenshots[1].blurScore, opts.minBlurThreshold)
    /\ baselineFrame = screenshots[1].frame
    /\ lastCallback = ScreenshotCall

\* The run of a video of positive duration is complete, and every seek of
\* it was answered by 'seeked'.
CleanRun == pc = "done" /\ duration > 0 /\ ~tally.warned

\* C13: scenario A.  With the default options, the video of 10 s that shows
\* solid red up to 3 s and solid blue from then on yields exactly 2
\* Screenshots, the second with a timestamp within stabilityWindow of 3 s.
C13_ScenarioA ==
    (CleanRun /\ env.source = ScriptedSource) =>
        /\ Len(screenshots) = 2
        /\ Abs(screenshots[2].timestamp - ChangeAt) <= opts.stabilityWindow

\* C14: scenario B.  A video that shows one frame for its whole duration,
\* whatever the frame's blur score and the duration, yields exactly 1
\* Screenshot, the first one, stamped 0.1 + stabilityWindow.
C14_ScenarioB ==
    (CleanRun /\ env.source.kind = "constant") =>
        /\ Len(screenshots) = 1
        /\ screenshots[1].timestamp = 100 + opts.stabilityWindow

\* C15: scenario C.  If every frame captured after the first one is
\* blurrier than minBlurThreshold, a run emits the first Screenshot and no
\* other, however many changes it detects.
C15_ScenarioC ==
    env.source = DullSource =>
        /\ Len(screenshots) <= 1
        /\ pc = "done" => Len(screenshots) = 1

\* C15's case: a change window has just resolved, far enough from the first
\* Screenshot, without a Screenshot.
C15_WindowResolved ==
    /\ env.source = DullSource
    /\ pc = "loopTest"
    /\ frameNumber > 1
    /\ recentDifferences = <<>>
    /\ changeDetectedAt = 0
    /\ Len(screenshots) = 1
    /\ (currentTime - opts.minScreenshotInterval \div 2) - lastScreenshotTime
           >= opts.minScreenshotInterval

\* C17: a seek never blocks the run.  A wait for 'seeked' always ends; when
\* it ends, by the event or by the timer, processVideo goes on where it was
\* waiting, with no error, whatever the element shows.
C17_SeekNeverBlocks ==
    /\ (pc = "seeking") ~> (pc # "seeking")
    /\ [][(pc = "seeking" /\ pc' # "seeking") =>
              /\ pc' = cont
              /\ pc' \in {"settleFirst", "settleStable", "loopTest",
                          "settleFinal"}
              /\ returned' = Pending
              /\ screenshots' = screenshots]_vars

\* C17's case: after a seek that timed out the loop samples the picture of
\* an earlier position.
C17_StaleSample ==
    /\ pc = "sample"
    /\ tally.warned
    /\ seekReq = currentTime
    /\ shownTime # currentTime

\* C18: every Screenshot after the first one has a blur score >=
\* minBlurThreshold.
C18_LaterShotsSharp ==
    \A i \in 2..Len(screenshots) :
        RLe(opts.minBlurThreshold, screenshots[i].blurScore)

\* C18's case: a blurry first Screenshot followed by two others.
C18_SharpAfterBlurry ==
    /\ Len(screenshots) >= 3
    /\ RLt(screenshots[1].blurScore, opts.minBlurThreshold)
    /\ pc = "done"

\* C19: onProgress is called at least once for every frame captured: a
\* complete run has made at least as many onProgress calls as captures.
C19_ProgressPerSample ==
    (pc = "done" /\ duration > 0) => tally.progress >= tally.captures

\* C20: a run can be cancelled between samples: with an abort wanted, the
\* loop does not go on to capture a frame.
C20_Abortable == ~(env.abort /\ pc = "sample")

\* A step of the loop body that analysed a captured frame.
SampleStep == pc = "sample" /\ frameNumber' = frameNumber + 1

\* The difference and the sharpness of the frame such a step captured.
SampledDifference == FrameDifference(baselineFrame, currentFrame')
SampledStableSharp ==
    /\ RLt(SampledDifference, opts.stabilityThreshold)
    /\ RLe(opts.minBlurThreshold, BlurScore(currentFrame'))

\* The step samples the frame at which the open window has lasted
\* stabilityWindow.
WindowEnds ==
    /\ SampleStep
    /\ changeDetectedAt # 0
    /\ currentTime - changeDetectedAt >= opts.stabilityWindow

IntervalGate == currentTime - lastScreenshotTime >= opts.minScreenshotInterval

\* C23: while a change window is open, every sampled frame that is stable
\* (d < stabilityThreshold) and sharp (>= minBlurThreshold) is recorded as a
\* Candidate: the frames of that kind sampled since the change are all in
\* the candidate list.
C23_WindowCollects ==
    changeDetectedAt # 0 =>
        \A i \in 1..Len(tally.window) :
            \E j \in 1..Len(stableFrames) :
                /\ stableFrames[j].time = tally.window[i].time
                /\ stableFrames[j].frame = tally.window[i].frame

\* C24: the candidate list is non-empty only while a change window is open:
\* whenever no change is flagged it is empty.
C24_EmptyWhenSampling == changeDetectedAt = 0 => stableFrames = <<>>

\* The Candidates of the window that ends with this step: the stable and
\* sharp frames sampled since the change, the one just captured included.
WindowCandidates ==
    IF SampledStableSharp
    THEN Append(tally.window,
                [time      |-> currentTime,
                 frame     |-> currentFrame',
                 stability |-> SampledDifference,
                 blurScore |-> BlurScore(currentFrame')])
    ELSE tally.window

Best(list) ==
    {e \in Range(list) :
        \A o \in Range(list) : RLe(CandidateScore(o), CandidateScore(e))}

\* C25: when a change window ends with Candidates and the interval gate is
\* passed (by the sample time and by the Candidates' times), the Screenshot
\* emitted is a Candidate of greatest 0.7*sharpness + 0.3*(1 - stability);
\* its frame is the new baseline and its time the new lastScreenshotTime.
C25_BestCandidate ==
    [][(/\ WindowEnds
        /\ WindowCandidates # <<>>
        /\ IntervalGate
        /\ \A e \in Range(WindowCandidates) :
               e.time - lastScreenshotTime >= opts.minScreenshotInterval)
       => \E e \in Best(WindowCandidates) :
              /\ Len(screenshots') = Len(screenshots) + 1
              /\ screenshots'[Len(screenshots')].timestamp = e.time
              /\ screenshots'[Len(screenshots')].frame = e.frame
              /\ baselineFrame' = e.frame
              /\ lastScreenshotTime' = e.time]_vars

\* C26: when a change window ends with an empty candidate list and
\* t - lastScreenshotTime >= minScreenshotInterval, the current frame is
\* emitted with timestamp t and becomes the baseline if its blur score is
\* >= minBlurThreshold; otherwise nothing is emitted and the baseline stays.
C26_Fallback ==
    [][(WindowEnds /\ stableFrames = <<>> /\ IntervalGate) =>
          IF RLe(opts.minBlurThreshold, BlurScore(currentFrame'))
          THEN /\ screenshots' =
                      Append(screenshots,
                             [timestamp   |-> currentTime,
                              frameNumber |-> frameNumber',
                              blurScore   |-> BlurScore(currentFrame'),
                              frame       |-> currentFrame'])
               /\ sink' = Append(sink, screenshots'[Len(screenshots')])
               /\ baselineFrame' = currentFrame'
               /\ lastScreenshotTime' = currentTime
          ELSE UNCHANGED <<screenshots, sink, baselineFrame,
                           lastScreenshotTime>>]_vars

\* C26's case: a window has just ended with the current frame emitted as the
\* second Screenshot, stamped with the sample time, and now the baseline.
C26_FallbackEmitted ==
    /\ pc = "loopTest"
    /\ recentDifferences = <<>>
    /\ Len(screenshots) = 2
    /\ screenshots[2].timestamp = currentTime - SkipAhead
    /\ screenshots[2].frame = currentFrame
    /\ screenshots[2].frame # screenshots[1].frame
    /\ baselineFrame = currentFrame
    /\ lastScreenshotTime = screenshots[2].timestamp

\* C27: every end of a change window, with or without a Screenshot, empties
\* the candidate list and recentDifferences, clears changeDetectedAt,
\* advances currentTime by exactly half of minScreenshotInterval and goes
\* back to the head of the loop without a seek.
C27_WindowReset ==
    [][WindowEnds =>
          /\ stableFrames' = <<>>
          /\ recentDifferences' = <<>>
          /\ changeDetectedAt' = 0
          /\ 2 * (currentTime' - currentTime) = opts.minScreenshotInterval
          /\ pc' = "loopTest"
          /\ tally'.window = <<>>]_vars

\* C27's case: a window that held a stable and sharp frame has ended without
\* a Screenshot, with the quick options (skip 0.125 s, sampling 0.2 s).
C27_ResetWithoutShot ==
    /\ pc = "loopTest"
    /\ opts = QuickOptions
    /\ frameNumber > 1
    /\ recentDifferences = <<>>
    /\ changeDetectedAt = 0
    /\ stableFrames = <<>>
    /\ Len(screenshots) = 1
    /\ currentTime - SkipAhead - lastScreenshotTime
           >= opts.minScreenshotInterval

C29_WaitsForStability ==
    [][/\ (SampleStep /\ changeDetectedAt # 0) =>
              (changeDetectedAt' = 0
                  <=> currentTime - changeDetectedAt >= opts.stabilityWindow)
       /\ (SampleStep /\ changeDetectedAt = 0) =>
              /\ recentDifferences' # <<>>
              /\ screenshots' = screenshots
       /\ (changeDetectedAt' # 0 /\ pc \in {"sample", "loopTest"}) =>
              screenshots' = screenshots]_vars

\* C29's case: a window opened two samples ago is still open, its third
\* sample is about to end it, and the bootstrap Screenshot is the only one.
C29_WindowStillOpen ==
    /\ pc = "sample"
    /\ changeDetectedAt # 0
    /\ currentTime - changeDetectedAt >= opts.stabilityWindow
    /\ currentTime - opts.sampleInterval - changeDetectedAt
           < opts.stabilityWindow
    /\ Len(recentDifferences) >= 2
    /\ Len(screenshots) = 1

\* The last n entries of a list.
LastN(list, n) == SubSeq(list, MaxInt(1, Len(list) - n + 1), Len(list))

\* C30: recentDifferences never holds more than motionSmoothing entries;
\* after a sample it holds the most recent differences in arrival order, the
\* oldest evicted first; the smoothed value the change test uses is their
\* arithmetic mean (their sum over their number).
C30_BoundedRecent ==
    /\ [](Len(recentDifferences) <= opts.motionSmoothing)
    /\ [][(SampleStep /\ ~WindowEnds) =>
            /\ recentDifferences' =
                   LastN(Append(recentDifferences, SampledDifference),
                         opts.motionSmoothing)
            /\ (/\ changeDetectedAt = 0
                /\ RLe(SampledDifference,
                       RMul(<<3, 2>>, opts.changeThreshold)))
               => (changeDetectedAt' # 0
                     <=> RLt(RMul(opts.changeThreshold,
                                  R(Len(recentDifferences'))),
                             RSum(recentDifferences', 1,
                                  Len(recentDifferences'))))]_vars

\* C30's case: with no window ever opened, more differences have arrived
\* than recentDifferences holds, and the ones it holds are not all equal.
C30_Evicted ==
    /\ pc = "loopTest"
    /\ changeDetectedAt = 0
    /\ frameNumber - 1 > opts.motionSmoothing
    /\ currentTime = FirstSampleTime + (frameNumber - 1) * opts.sampleInterval
    /\ Len(recentDifferences) = opts.motionSmoothing
    /\ recentDifferences[1] # recentDifferences[opts.motionSmoothing]

\* `kept` is `all` without one entry that no other entry is less sharp
\* than, in order of sharpness, sharpest first.
KeptSharpest(all, kept) ==
    /\ Len(kept) = Len(all) - 1
    /\ \A i \in 1..(Len(kept) - 1) :
           RLe(kept[i + 1].blurScore, kept[i].blurScore)
    /\ \E drop \in 1..Len(all) :
           /\ Range(kept) = Range(all) \ {all[drop]}
           /\ \A i \in 1..Len(all) :
                  RLe(all[drop].blurScore, all[i].blurScore)

\* C31: after every sample step the candidate list holds at most 5 entries;
\* when a qualifying (stable and sharp) frame arrives while 5 are held, the
\* list becomes the 5 sharpest of the six, in order of sharpness, sharpest
\* first.
C31_CappedCandidates ==
    [][SampleStep =>
          /\ Len(stableFrames') <= 5
          /\ (/\ Len(stableFrames) = 5
              /\ changeDetectedAt = 0
              /\ SampledStableSharp
              /\ stableFrames' # <<>>) =>
                 KeptSharpest(
                     Append(stableFrames,
                            [time      |-> currentTime,
                             frame     |-> currentFrame',
                             stability |-> SampledDifference,
                             blurScore |-> BlurScore(currentFrame')]),
                     stableFrames')]_vars

\* C31's case: seven frames were sampled, all of them stable and sharp, and
\* the five kept are no longer in the order of their sampling: a sharper
\* frame sampled later stands before a less sharp one sampled earlier.
C31_SixthArrived ==
    /\ pc = "loopTest"
    /\ frameNumber >= 7
    /\ Len(stableFrames) = 5
    /\ stableFrames[1].time > stableFrames[2].time
    /\ RLt(stableFrames[2].blurScore, stableFrames[1].blurScore)

\* The frame of the Screenshot emitted last.
LastShotFrame(list) == list[Len(list)].frame

\* C32 as the specification states it: at all times, once a Screenshot was
\* emitted, the baseline is the frame of the Screenshot emitted last (here
\* for the videos of MaxDuration).
C32_BaselineIsLastShot ==
    (video.duration = Finite(MaxDuration) /\ screenshots # <<>>) =>
        baselineFrame = LastShotFrame(screenshots)

\* C32, amended: until the final frame is captured, the baseline is the
\* frame of the Screenshot emitted last, or the first sampled frame while
\* none was emitted; and a step that replaces a baseline emits exactly one
\* Screenshot, whose frame is the new baseline.  (The Screenshot of the
\* final frame, emitted after the loop, does not become the baseline.)
C32_BaselineUntilFinal ==
    [][/\ pc' # "done" =>
             IF screenshots' # <<>>
             THEN baselineFrame' = LastShotFrame(screenshots')
             ELSE \/ baselineFrame' = NoFrame /\ frameNumber' = 0
                  \/ baselineFrame' = currentFrame' /\ frameNumber' = 1
       /\ (baselineFrame # NoFrame /\ baselineFrame' # baselineFrame) =>
             /\ Len(screenshots') = Len(screenshots) + 1
             /\ baselineFrame' = LastShotFrame(screenshots')
       /\ (pc \in {"sample", "loopTest"} /\ screenshots' # screenshots) =>
             /\ Len(screenshots') = Len(screenshots) + 1
             /\ baselineFrame' = LastShotFrame(screenshots')]_vars

\* C32's case: a Screenshot emitted in the loop has replaced the baseline
\* that the first Screenshot had set, by a different frame.
C32_BaselineReplaced ==
    /\ pc \in {"loopTest", "sample"}
    /\ Len(screenshots) = 2
    /\ baselineFrame = screenshots[2].frame
    /\ baselineFrame # screenshots[1].frame

C35_SampledWhereSought ==
    (pc = "sample" /\ duration > 0 /\ ~tally.warned) =>
        /\ videoTime = currentTime
        /\ shownTime = currentTime

\* C36: recentDifferences holds differences against the current baseline
\* only: a step that replaces the baseline (it emits a Screenshot before the
\* loop ends) leaves recentDifferences empty, and a sample step that does
\* not end a window appends the difference of the frame it captured against
\* the baseline, which it keeps.
C36_DiffsOfBaseline ==
    [][/\ (\/ baselineFrame' # baselineFrame
           \/ (pc # "settleFinal" /\ screenshots' # screenshots)) =>
             recentDifferences' = <<>>
       /\ (SampleStep /\ recentDifferences' # <<>>) =>
             /\ baselineFrame' = baselineFrame
             /\ recentDifferences'[Len(recentDifferences')]
                    = FrameDifference(baselineFrame', currentFrame')]_vars

\* C36's case: the baseline was replaced by the second Screenshot, and the
\* one difference held is that of the next sample against the new baseline,
\* which is not its difference against the old one.
C36_ComparedAfterReplace ==
    /\ pc = "loopTest"
    /\ Len(screenshots) = 2
    /\ baselineFrame = screenshots[2].frame
    /\ Len(recentDifferences) = 1
    /\ recentDifferences[1] = FrameDifference(baselineFrame, currentFrame)
    /\ recentDifferences[1]
           # FrameDifference(screenshots[1].frame, currentFrame)

\* C37: for every positive finite duration, the timestamp of every
\* Screenshot emitted lies in [0, duration].
C37_WithinVideo ==
    duration > 0 =>
        \A i \in 1..Len(screenshots) :
            /\ 0 <= screenshots[i].timestamp
            /\ screenshots[i].timestamp <= duration

\* C40: a change window that ends with an empty candidate list and with
\* the interval gate or the blur gate failing emits nothing: the baseline,
\* lastScreenshotTime, the Screenshots and the calls of onScreenshot are as
\* before, the promise stays pending and the loop goes on.
C40_NoShotNoChange ==
    [][(/\ WindowEnds
        /\ stableFrames = <<>>
        /\ \/ ~IntervalGate
           \/ RLt(BlurScore(currentFrame'), opts.minBlurThreshold)) =>
          /\ UNCHANGED <<baselineFrame, lastScreenshotTime, screenshots, sink>>
          /\ returned' = Pending
          /\ pc' = "loopTest"]_vars

\* C40's case: a window has just ended on a blurry frame with the interval
\* gate passed, and the one Screenshot and the baseline are those of the
\* first stable frame.
C40_BlurryWindowEnd ==
    /\ pc = "loopTest"
    /\ frameNumber > 1
    /\ recentDifferences = <<>>
    /\ currentFrame # NoFrame
    /\ RLt(BlurScore(currentFrame), opts.minBlurThreshold)
    /\ currentTime - SkipAhead - lastScreenshotTime
           >= opts.minScreenshotInterval
    /\ Len(screenshots) = 1
    /\ baselineFrame = screenshots[1].frame
    /\ baselineFrame # currentFrame
    /\ returned = Pending

\* C38: a seekToTime call resolves exactly once, by the 'seeked' event or
\* by the 1 s timer, whichever comes first; while it waits exactly one
\* listener and one timer are armed, and once it has resolved neither
\* remains: the event or the timer that comes second resumes nothing.
C38_ResolvesOnce ==
    [][/\ listeners' <= 1 /\ timers' <= 1
       /\ IF pc' = "seeking"
          THEN listening' /\ listeners' = 1 /\ timers' = 1
          ELSE ~listening' /\ listeners' = 0 /\ timers' = 0
       /\ (pc = "seeking" /\ pc' # "seeking") =>
             /\ pc' = cont
             /\ \/ seekedQueued /\ ~seekedQueued' /\ tally' = tally
                \/ seekedQueued' = seekedQueued /\ tally'.warned
       /\ (pc # "seeking" /\ seekedQueued /\ ~seekedQueued') =>
             pc' = pc /\ cont' = cont]_vars

\* C38's case: the first seek was resolved by its timer and the 'seeked'
\* event of that seek has been dispatched afterwards, while processVideo
\* was waiting to capture the first frame.
C38_LateEvent ==
    /\ pc = "settleFirst"
    /\ tally.warned
    /\ shownTime = videoTime
    /\ seekReq = NoSeek
    /\ ~seekedQueued
    /\ listeners = 0 /\ timers = 0

\* C39: in a video of positive duration, a wait of seekToTime(t) that ends
\* by the 'seeked' event ends when the source has reached t: the event that
\* ends it is not the one of an earlier seek that timed out.
C39_OwnEvent ==
    [][(/\ duration > 0
        /\ pc = "seeking"
        /\ pc' # "seeking"
        /\ seekedQueued /\ ~seekedQueued') =>
          /\ shownTime = videoTime
          /\ seekReq = NoSeek]_vars

----------------------------------------------------------------------------
(* Properties of calculateFrameDifference, under SpecDiff                  *)

SameSize == fa.w = fb.w /\ fa.h = fb.h

\* C8: for two frames of equal size, calculateFrameDifference returns a
\* value in [0, 1].
C8_UnitRange ==
    (pc = "compared" /\ SameSize) =>
        RLe(RZero, dres[1]) /\ RLe(dres[1], ROne)

\* C9: the difference of a frame with itself is exactly 0.
C9_SelfZero == (pc = "compared" /\ fa = fb) => dres[1] = RZero

\* C10: calculateFrameDifference(a, b) = calculateFrameDifference(b, a).
C10_Symmetric == pc = "compared" => dres[1] = dres[2]

\* C11: when the two frames differ in width or height the difference is
\* exactly 1, both ways, and it is 1 also for ImageData that hold no pixel
\* to read.
C11_MismatchIsOne ==
    (pc = "compared" /\ ~SameSize) =>
        /\ dres[1] = ROne
        /\ dres[2] = ROne
        /\ calculateFrameDifference(Header(fa), Header(fb)) = ROne

\* C11's case: frames of equal width and different heights were compared.
C11_HeightsDiffer ==
    /\ pc = "compared"
    /\ fa.w = fb.w
    /\ fa.h # fb.h
    /\ dres = <<ROne, ROne>>

\* C10's case: two different frames of equal size, with a difference that
\* is not zero, compared both ways.
C10_Compared ==
    /\ pc = "compared"
    /\ fa # fb
    /\ SameSize
    /\ dres[1] # RZero
    /\ Len(dres) = 2

\* The two frames are of one size and show different pictures.
PicturesDiffer == SameSize /\ ImageData(fa).data # ImageData(fb).data

\* The pictures are the same in every block of blockSize x blockSize that
\* lies wholly inside the frame.
FullBlocksAgree ==
    \A x \in 0..(fa.w - 1) :
        x < (fa.w \div blockSize) * blockSize =>
            (IF x < fa.at THEN fa.c1 ELSE fa.c2)
                = (IF x < fb.at THEN fb.c1 ELSE fb.c2)

\* C33: the structural difference covers every pixel: two frames of one
\* size that show different pictures get a structural difference above 0,
\* also when they differ only in the border strip right of the last full
\* block or are smaller than one block.
C33_CoversEveryPixel ==
    (pc = "structured" /\ PicturesDiffer) => RLt(RZero, dres[1])

\* C33's case: the structural difference of two different pictures that
\* agree in every full block (the border strip or a small frame holds the
\* difference) has been computed.
C33_BorderCompared ==
    /\ pc = "structured"
    /\ PicturesDiffer
    /\ FullBlocksAgree

----------------------------------------------------------------------------
(* Properties of calculateBlurScore, under SpecBlur                        *)

\* The frame shows one colour only.
Flat(d) == d.at = 0 \/ d.at >= d.w \/ d.c1 = d.c2

\* C12: the blur score of a frame of one colour, of any size, is 0, and the
\* score of any frame is never negative.
C12_FlatIsZero ==
    pc = "scored" =>
        /\ RLe(RZero, dres[1])
        /\ Flat(fa) => dres[1] = RZero

\* C12's case: a red frame with several interior pixels has been scored 0.
C12_FlatScored ==
    /\ pc = "scored"
    /\ Flat(fa)
    /\ fa.c2 = Red
    /\ fa.w > 3 /\ fa.h > 3
    /\ dres = <<RZero>>

----------------------------------------------------------------------------
(* Properties of the object-detection processVideo, under SpecSsd          *)

\* C21: in every call of the object-detection processVideo, any two
\* consecutive Screenshots, the first-frame and the final-frame Screenshot
\* included, have timestamps at least 1 second apart.
C21_SsdSpacing ==
    \A c \in DOMAIN calls :
        \A i \in 1..(Len(calls[c].screenshots) - 1) :
            Gap(calls[c].screenshots, i) >= 1000

\* C21's case: a complete run with the first-frame Screenshot, one made in
\* the loop exactly 1 s later, and the final-frame Screenshot.
C21_ThreeShots ==
    /\ pc = "ssd"
    /\ calls[1].pc = "done"
    /\ Len(calls[1].screenshots) = 3
    /\ calls[1].screenshots[1] = [timestamp |-> 0, frameNumber |-> 0]
    /\ calls[1].screenshots[2].timestamp = 1000
    /\ calls[1].screenshots[3].timestamp = calls[1].video.duration.value

\* C22: the COCO-SSD model is loaded once: over any interleaving of
\* processVideo calls, cocoSsd.load() has been called at most once unless a
\* load has failed.
C22_LoadedOnce ==
    \/ loadCalls <= 1
    \/ \E c \in DOMAIN calls : calls[c].pc = "loadError"

====
